---- MODULE Spec2Model ----
(***************************************************************************)
(* A model of the brego sensor server: the reading bus (ingress queue,     *)
(* dispatcher, subscriber registry), its sinks (database_writer,           *)
(* broadcast_client, websocket_client) and the queue-based WebSocket       *)
(* bridge (ws_adapter / process_incoming / run_ws).                        *)
(*                                                                         *)
(* Tasks are curio coroutines: a task runs without interruption between    *)
(* two awaits, so every action below is the code between two suspension    *)
(* points of one task.                                                     *)
(***************************************************************************)
EXTENDS Integers, Sequences, FiniteSets, TLC

\* ------------------------------------------------------------------ bounds
\* Spec, the bus: readings the producers put on the ingress queue
MaxReadings == 3
\* SpecWS, one WebSocket connection: readings produced, and data frames and
\* pings the peer sends after its handshake request
WsReadings == 2
MaxFrames == 2
MaxPings == 1
\* SpecAll, the bus with all its sinks and a WebSocket connection
AllReadings == 1
AllFrames == 0
AllPings == 0
\* the echo server: frames and pings of the peer
EchoFrames == 3
EchoPings == 0
\* for _ in range(3) in ws_echo_server
EchoRounds == 3
\* SpecSup, the supervisor: readings produced and SIGHUPs sent
SupReadings == 1
MaxRestarts == 2
\* SpecEchoLive, the echo server under fair scheduling: frames of the peer
LiveFrames == 4
\* SpecShut, a WebSocket connection and the shutdown of the server
ShutReadings == 1
ShutFrames == 1
ShutPings == 0
\* SpecDB, a SensorDB on its own: calls made
MaxDbCalls == 5
\* SpecMulti, two producers on the bus: poll cycles of the one-wire
\* reporter, readings of one cycle, and readings on the bus in all
MaxPolls == 1
PollSize == 2
MultiReadings == 2

\* ----------------------------------------------------------------- helpers
Range(s) == {s[i] : i \in 1..Len(s)}

\* the sentinel None on in_q / out_q; readings and frames are numbered from 1
None == 0

\* the sinks; every sink task owns exactly one subscriber queue, which is
\* identified with the sink that created it
Sinks == {"db", "bc", "ws"}

\* the labels the sinks register their queues under
SinkLabel(s) ==
    CASE s = "db" -> "database_writer"
      [] s = "bc" -> "broadcast_client"
      [] s = "ws" -> "websocket_client"

\* a reading is (device, {'time': .., 'value': ..}); the dict is a heap
\* object shared by reference, modelled by the set of its keys
ReadingKeys == {"time", "value"}

\* --------------------------------------------------------------- variables
VARIABLES
    readings,           \* SensorServer.readings, the ingress queue (refs)
    heap,               \* ref -> keys of the reading's data dict
    subscribers,        \* SensorServer.subscribers
    subscriber_names,   \* SensorServer.subscriber_names
    queues,             \* sink -> contents of its subscriber queue (refs)
    dpc,                \* dispatcher position: "get", "put", "cancelled"
    dreading,           \* dispatcher local: reading
    dsnap,              \* dispatcher local: rest of list(self.subscribers)
    spc,                \* sink -> position in its coroutine
    sitem,              \* sink -> the reading it holds
    shutdown,           \* SIGINT/SIGTERM seen by run()
    \* history
    deqOrder,           \* refs in the order the dispatcher dequeued them
    snapAt,             \* registry snapshot of every dispatch cycle
    putlog,             \* every q.put of the dispatcher: [b |-> ref, q |-> queue]
    regHist,            \* queue -> when it was registered and unsubscribed
    raised,             \* an exception escaped from dispatcher/unsubscribe
    bcOut,              \* what broadcast_client wrote to its stream
    lastCall            \* the last direct registry call and the state before it

VARIABLES
    ppc,                \* the WebSocket peer: "new", "requested", "closed", "reset"
    wire,               \* frames the peer sent that no recv has returned yet
    rpc,                \* run_ws: "idle", "handler", "join", "done", ...
    apc,                \* ws_adapter: "handshake", "wait", "done", "crashed"
    wstate,             \* wsproto connection state of wsconn
    wstask,             \* the spawned client.recv task: [st, res]
    outqtask,           \* the spawned out_q.get task: [st, res]
    firstDone,          \* which of the two tasks g.next_done() returns
    in_q,               \* run_ws in_q
    out_q,              \* run_ws out_q
    \* history
    peerSent,           \* every frame the peer sent after its request
    inLog,              \* every item put on in_q
    outLog,             \* every item put on out_q
    sockOut,            \* every frame the bridge wrote to the socket
    taken,              \* every item a completed out_q.get took off out_q
    dropped             \* results of completed tasks that were never joined

busvars == <<readings, heap, subscribers, subscriber_names, queues, dpc,
             dreading, dsnap, spc, sitem, shutdown, deqOrder, snapAt,
             putlog, regHist, raised, bcOut>>

wsvars == <<ppc, wire, rpc, apc, wstate, wstask, outqtask, firstDone,
            in_q, out_q, peerSent, inLog, outLog, sockOut, taken, dropped>>

VARIABLES
    mpc,                \* run(): "run", "done", "failed"
    session,            \* SensorDB.session: "active" or None
    gtask,              \* tasks of run()'s group not modelled above
    bpc,                \* broadcaster: "init", "wait", "cancelled"
    lpc,                \* the current broadcast_task (unix_server)
    sockfile,           \* the socket path exists in the filesystem
    restart,            \* notifications waiting in the SignalQueue
    \* history
    hups,               \* SIGHUPs sent so far
    lgen,               \* listeners spawned so far
    restartAt           \* readings dequeued when the last restart was served

supvars == <<mpc, session, gtask, bpc, lpc, sockfile, restart, hups, lgen,
             restartAt>>

VARIABLES
    db_session,         \* SensorDB.session of a SensorDB used on its own
    sessions_table,     \* its sessions table: session_id -> [start, end]
    device_table,       \* the rows of its device table
    clock,              \* the value of now()
    lastDb,             \* the last SensorDB call and the state before it
    temps,              \* multionewire_reporter: what is left of temps
    polls,              \* multisensor.read calls made so far
    origin              \* ref -> the poll and the position it came from

extvars == <<db_session, sessions_table, device_table, clock, lastDb, temps,
             polls, origin>>

vars == <<busvars, wsvars, lastCall, supvars, extvars>>

\* ---------------------------------------------------------------- registry
\* register_subscriber without its membership test: the label is set anew
register_subscriber_relabel(subs, names, q, name) ==
    [subscribers |-> subs \cup {q},
     subscriber_names |-> [x \in DOMAIN names \cup {q} |->
                              IF x = q THEN name ELSE names[x]]]

\* register_subscriber that adds the queue and forgets its label
register_subscriber_unlabelled(subs, names, q, name) ==
    [subscribers |-> subs \cup {q}, subscriber_names |-> names]

\* SensorServer.register_subscriber
register_subscriber(subs, names, q, name) ==
    IF q \notin subs
    THEN [subscribers |-> subs \cup {q},
          subscriber_names |-> [x \in DOMAIN names \cup {q} |->
                                   IF x = q THEN name ELSE names[x]]]
    ELSE [subscribers |-> subs, subscriber_names |-> names]

\* unsubscribe that forgets self.subscribers.remove(q)
unsubscribe_label_only(subs, names, q) ==
    [subscribers |-> subs,
     subscriber_names |-> [x \in DOMAIN names \ {q} |-> names[x]],
     raised |-> FALSE]

\* unsubscribe that empties the registry
unsubscribe_all(subs, names, q) ==
    [subscribers |-> {}, subscriber_names |-> << >>, raised |-> FALSE]

\* SensorServer.unsubscribe: set.remove and del both raise KeyError on a
\* missing key; the bare except swallows it
unsubscribe(subs, names, q) ==
    IF q \notin subs
    THEN [subscribers |-> subs, subscriber_names |-> names, raised |-> FALSE]
    ELSE IF q \notin DOMAIN names
    THEN [subscribers |-> subs \ {q}, subscriber_names |-> names,
          raised |-> FALSE]
    ELSE [subscribers |-> subs \ {q},
          subscriber_names |-> [x \in DOMAIN names \ {q} |-> names[x]],
          raised |-> FALSE]

\* a sink registers its fresh queue
Register(s) ==
    LET r == register_subscriber(subscribers, subscriber_names, s, SinkLabel(s))
    IN /\ subscribers' = r.subscribers
       /\ subscriber_names' = r.subscriber_names
       /\ regHist' = [regHist EXCEPT ![s].reg = Len(deqOrder),
                                     ![s].regMid = (dpc = "put")]

\* a sink without the finally block
Unsubscribe_missing(s) ==
    UNCHANGED <<subscribers, subscriber_names, raised, regHist>>

\* a sink leaves through its finally block
Unsubscribe(s) ==
    LET r == unsubscribe(subscribers, subscriber_names, s)
    IN /\ subscribers' = r.subscribers
       /\ subscriber_names' = r.subscriber_names
       /\ raised' = (raised \/ r.raised)
       /\ regHist' = [regHist EXCEPT ![s].unreg = Len(deqOrder),
                                     ![s].unregMid = (dpc = "put")]

\* ------------------------------------------------------------------ queues
\* a queue whose put places the item at the front
q_put_front(q, item) == <<item>> \o q

\* curio.Queue is FIFO and unbounded here (every queue is curio.Queue()):
\* put appends and never blocks, get takes the oldest item
q_put(q, item) == Append(q, item)

\* ---------------------------------------------------------------- producer
\* adc_reporter._reporter: put (device_name, {'time': now(), 'value': ..})
\* on the ingress queue; the reading's dict is a fresh heap object
adc_reporter(max) ==
    /\ Len(heap) < max
    /\ heap' = Append(heap, ReadingKeys)
    /\ readings' = q_put(readings, Len(heap) + 1)
    /\ UNCHANGED <<subscribers, subscriber_names, queues, dpc, dreading,
                   dsnap, spc, sitem, shutdown, deqOrder, snapAt, putlog,
                   regHist, raised, bcOut, wsvars, lastCall, supvars, extvars>>

\* -------------------------------------------------------------- dispatcher
\* iterating what is left of the snapshot in the live registry
targets_live(snap, live) == snap \cap live

\* the queues the dispatcher still has to put the reading on: the rest of
\* list(self.subscribers), whatever the registry holds by now
targets(snap, live) == snap

\* async for reading in self.readings / for q in list(self.subscribers):
\* the get returns the oldest reading and the snapshot is taken before the
\* dispatcher can be suspended again
dispatcher_get ==
    /\ dpc = "get"
    /\ readings # << >>
    /\ dreading' = Head(readings)
    /\ readings' = Tail(readings)
    /\ dsnap' = subscribers
    /\ deqOrder' = Append(deqOrder, Head(readings))
    /\ snapAt' = Append(snapAt, subscribers)
    /\ dpc' = IF subscribers = {} THEN "get" ELSE "put"
    /\ UNCHANGED <<heap, subscribers, subscriber_names, queues, spc, sitem,
                   shutdown, putlog, regHist, raised, bcOut, wsvars, lastCall, supvars, extvars>>

\* the reading put at the front of the queue
deliver_front(q, reading) == <<reading>> \o q

\* q.put(reading): the reading goes to the back of the subscriber's queue
deliver(q, reading) == q_put(q, reading)

\* the dispatcher over bounded subscriber queues: a put waits for room
dispatcher_put_bounded ==
    /\ dpc = "put"
    /\ IF dsnap = {}
       THEN /\ dsnap' = {}
            /\ dpc' = "get"
            /\ UNCHANGED <<queues, putlog>>
       ELSE \E q \in dsnap :
            /\ Len(queues[q]) < 1
            /\ queues' = [queues EXCEPT ![q] = Append(@, dreading)]
            /\ putlog' = Append(putlog, [b |-> dreading, q |-> q])
            /\ dsnap' = dsnap \ {q}
            /\ dpc' = IF dsnap \ {q} = {} THEN "get" ELSE "put"
    /\ UNCHANGED <<readings, heap, subscribers, subscriber_names, dreading,
                   spc, sitem, shutdown, deqOrder, snapAt, regHist, raised,
                   bcOut, wsvars, lastCall, supvars, extvars>>

\* await q.put(reading), for the next q of the snapshot
dispatcher_put ==
    /\ dpc = "put"
    /\ IF targets(dsnap, subscribers) = {}
       THEN /\ dsnap' = {}
            /\ dpc' = "get"
            /\ UNCHANGED <<queues, putlog>>
       ELSE \E q \in targets(dsnap, subscribers) :
            /\ queues' = [queues EXCEPT ![q] = deliver(@, dreading)]
            /\ putlog' = Append(putlog, [b |-> dreading, q |-> q])
            /\ dsnap' = dsnap \ {q}
            /\ dpc' = IF targets(dsnap \ {q}, subscribers) = {}
                      THEN "get" ELSE "put"
    /\ UNCHANGED <<readings, heap, subscribers, subscriber_names, dreading,
                   spc, sitem, shutdown, deqOrder, snapAt, regHist, raised,
                   bcOut, wsvars, lastCall, supvars, extvars>>

\* curio.CancelledError reaches the dispatcher where it blocks: in the get
\* on an empty ingress queue (a put on an unbounded queue does not block)
dispatcher_cancel ==
    /\ shutdown
    /\ dpc = "get"
    /\ dpc' = "cancelled"
    /\ UNCHANGED <<readings, heap, subscribers, subscriber_names, queues,
                   dreading, dsnap, spc, sitem, shutdown, deqOrder, snapAt,
                   putlog, regHist, raised, bcOut, wsvars, lastCall, supvars, extvars>>

\* run(): await cancel.wait() returns on SIGINT/SIGTERM, then
\* g.cancel_remaining() cancels the tasks of the group
signal_shutdown ==
    /\ ~shutdown
    /\ shutdown' = TRUE
    /\ UNCHANGED <<readings, heap, subscribers, subscriber_names, queues,
                   dpc, dreading, dsnap, spc, sitem, deqOrder, snapAt,
                   putlog, regHist, raised, bcOut, wsvars, lastCall, supvars, extvars>>

\* ------------------------------------------------------------------- sinks
\* what the sinks never touch
dispvars == <<readings, dpc, dreading, dsnap, deqOrder, snapAt, putlog>>

Terminated == {"done", "failed", "cancelled"}

\* a task that is cancelled before it first runs never executes its body
sink_cancel_unstarted(s) ==
    /\ shutdown
    /\ spc[s] = "init"
    /\ spc' = [spc EXCEPT ![s] = "cancelled"]
    /\ UNCHANGED <<dispvars, heap, subscribers, subscriber_names, queues,
                   sitem, shutdown, regHist, raised, bcOut, wsvars, lastCall, supvars, extvars>>

\* SensorDB.insert_readings: every item of the list gets a session_id key;
\* the items are the caller's dicts
insert_readings(keys) == keys \cup {"session_id"}

\* database_writer up to its first await: write_q = curio.Queue();
\* self.register_subscriber(write_q, 'database_writer')
database_writer_start ==
    /\ spc["db"] = "init"
    /\ Register("db")
    /\ spc' = [spc EXCEPT !["db"] = "get"]
    /\ UNCHANGED <<dispvars, heap, queues, sitem, shutdown, raised,
                   bcOut, wsvars, lastCall, supvars, extvars>>

\* device, data = await write_q.get(); insert_readings(device, [data]);
\* await write_q.task_done().  insert_readings raises before it touches
\* the reading (no session, no 'time', unknown device: "reject") or in
\* insert_many, after it tagged the reading ("storage"); any exception
\* leaves through the finally block
database_writer_write ==
    /\ spc["db"] = "get"
    /\ queues["db"] # << >>
    /\ queues' = [queues EXCEPT !["db"] = Tail(@)]
    /\ \E outcome \in {"ok", "reject", "storage"} :
         /\ heap' = IF outcome = "reject" THEN heap
                    ELSE [heap EXCEPT ![Head(queues["db"])] = insert_readings(@)]
         /\ IF outcome = "ok"
            THEN UNCHANGED <<subscribers, subscriber_names, spc, regHist, raised>>
            ELSE /\ Unsubscribe("db")
                 /\ spc' = [spc EXCEPT !["db"] = "failed"]
    /\ UNCHANGED <<dispvars, sitem, shutdown, bcOut, wsvars, lastCall, supvars, extvars>>

\* except curio.CancelledError: raise / finally: self.unsubscribe(write_q)
database_writer_cancel ==
    /\ shutdown
    /\ spc["db"] = "get"
    /\ Unsubscribe("db")
    /\ spc' = [spc EXCEPT !["db"] = "cancelled"]
    /\ UNCHANGED <<dispvars, heap, queues, sitem, shutdown, bcOut, wsvars,
                   lastCall, supvars, extvars>>

\* broadcast_client up to its first await: bcast_q = curio.Queue();
\* self.register_subscriber(bcast_q, ...)
broadcast_client_start ==
    /\ spc["bc"] = "init"
    /\ Register("bc")
    /\ spc' = [spc EXCEPT !["bc"] = "get"]
    /\ UNCHANGED <<dispvars, heap, queues, sitem, shutdown, raised,
                   bcOut, wsvars, lastCall, supvars, extvars>>

\* device, data = await bcast_q.get(); string = json.dumps(...): the
\* record is serialised from the dict as it is now
broadcast_client_get ==
    /\ spc["bc"] = "get"
    /\ queues["bc"] # << >>
    /\ queues' = [queues EXCEPT !["bc"] = Tail(@)]
    /\ sitem' = [sitem EXCEPT !["bc"] =
                    [b |-> Head(queues["bc"]), keys |-> heap[Head(queues["bc"])]]]
    /\ spc' = [spc EXCEPT !["bc"] = "write"]
    /\ UNCHANGED <<dispvars, heap, subscribers, subscriber_names, shutdown,
                   regHist, raised, bcOut, wsvars, lastCall, supvars, extvars>>

\* await curio.timeout_after(60, stream.write, ...): the write completes,
\* or BrokenPipeError / curio.TaskTimeout ends the handler
broadcast_client_write ==
    /\ spc["bc"] = "write"
    /\ \E ok \in BOOLEAN :
         IF ok
         THEN /\ bcOut' = Append(bcOut, sitem["bc"])
              /\ spc' = [spc EXCEPT !["bc"] = "get"]
              /\ UNCHANGED <<subscribers, subscriber_names, regHist, raised>>
         ELSE /\ Unsubscribe("bc")
              /\ spc' = [spc EXCEPT !["bc"] = "done"]
              /\ UNCHANGED bcOut
    /\ UNCHANGED <<dispvars, heap, queues, sitem, shutdown, wsvars, lastCall, supvars, extvars>>

\* a handler whose CancelledError branch only re-raises
broadcast_client_cancel_silent ==
    /\ shutdown
    /\ spc["bc"] \in {"get", "write"}
    /\ Unsubscribe("bc")
    /\ spc' = [spc EXCEPT !["bc"] = "cancelled"]
    /\ UNCHANGED <<dispvars, heap, queues, sitem, shutdown, bcOut, wsvars,
                   lastCall, supvars, extvars>>

\* except curio.CancelledError: the handler goes on to write END_STREAM
broadcast_client_cancel ==
    /\ shutdown
    /\ spc["bc"] \in {"get", "write"}
    /\ spc' = [spc EXCEPT !["bc"] = "end_stream"]
    /\ UNCHANGED <<dispvars, heap, subscribers, subscriber_names, queues,
                   sitem, shutdown, regHist, raised, bcOut, wsvars, lastCall, supvars, extvars>>

\* await stream.write(json.dumps({'msg': 'END_STREAM'})); raise; the
\* finally block runs whether the write succeeds or raises
broadcast_client_end_stream ==
    /\ spc["bc"] = "end_stream"
    /\ \E ok \in BOOLEAN :
         /\ bcOut' = IF ok THEN Append(bcOut, [b |-> 0, keys |-> {"msg"}])
                     ELSE bcOut
         /\ spc' = [spc EXCEPT !["bc"] = IF ok THEN "cancelled" ELSE "failed"]
    /\ Unsubscribe("bc")
    /\ UNCHANGED <<dispvars, heap, queues, sitem, shutdown, wsvars, lastCall, supvars, extvars>>

\* ------------------------------------------------------- WebSocket: peer
Frame(t, n) == [t |-> t, n |-> n]

Count(seq, t) == Cardinality({i \in 1..Len(seq) : seq[i].t = t})

\* the data payloads of a sequence of frames, in order
RECURSIVE Payloads(_)
Payloads(seq) ==
    IF seq = << >> THEN << >>
    ELSE IF Head(seq).t = "data" THEN <<Head(seq).n>> \o Payloads(Tail(seq))
    ELSE Payloads(Tail(seq))

Accepted == \E i \in 1..Len(sockOut) : sockOut[i].t = "accept"

\* the client connects and sends its opening handshake request, which may
\* reach the server in one piece or in two
peer_request ==
    /\ ppc = "new"
    /\ rpc # "idle"
    /\ ppc' = "requested"
    /\ \E whole \in BOOLEAN :
         wire' = IF whole THEN Append(wire, Frame("request", 0))
                 ELSE wire \o <<Frame("request_head", 0), Frame("request", 0)>>
    /\ UNCHANGED <<busvars, rpc, apc, wstate, wstask, outqtask, firstDone,
                   in_q, out_q, peerSent, inLog, outLog, sockOut, taken,
                   dropped, lastCall, supvars, extvars>>

\* once it has the accept response the client sends data frames and pings,
\* and a close frame as its last frame
peer_send(maxFrames, maxPings) ==
    /\ ppc = "requested"
    /\ Accepted
    /\ \E f \in {Frame("data", Count(peerSent, "data") + 1),
                  Frame("ping", 0), Frame("close", 0)} :
         /\ f.t = "data" => Count(peerSent, "data") < maxFrames
         /\ f.t = "ping" => Count(peerSent, "ping") < maxPings
         /\ wire' = Append(wire, f)
         /\ peerSent' = Append(peerSent, f)
         /\ ppc' = IF f.t = "close" THEN "closed" ELSE ppc
    /\ UNCHANGED <<busvars, rpc, apc, wstate, wstask, outqtask, firstDone,
                   in_q, out_q, inLog, outLog, sockOut, taken, dropped,
                   lastCall, supvars, extvars>>

\* the connection breaks: from now on recv and sendall raise
peer_reset ==
    /\ ppc \in {"requested", "closed"}
    /\ ppc' = "reset"
    /\ UNCHANGED <<busvars, wire, rpc, apc, wstate, wstask, outqtask,
                   firstDone, in_q, out_q, peerSent, inLog, outLog, sockOut,
                   taken, dropped, lastCall, supvars, extvars>>

\* ----------------------------------------------------- WebSocket: bridge
\* process_incoming: for event in wsconn.events(), over the events the
\* decoder yields for the frames of one chunk.  st is the running
\* [closed, rsp, puts, wstate, raised]; `Ping` is not imported by
\* ws_server.py, so the fourth isinstance raises NameError for any event
\* that is not a message, a Request or a CloseConnection

\* process_incoming without its first branch: messages are not forwarded
on_event_no_forward(st, e) ==
    CASE e.t = "data" -> st
      [] e.t = "request" ->
           [st EXCEPT !.rsp = Append(@, Frame("accept", 0)),
                      !.wstate = "OPEN"]
      [] e.t = "close" ->
           [st EXCEPT !.puts = Append(@, None),
                      !.closed = TRUE,
                      !.wstate = "REMOTE_CLOSING"]
      [] OTHER ->
           [st EXCEPT !.raised = TRUE]

on_event(st, e) ==
    CASE e.t = "data" ->
           [st EXCEPT !.puts = Append(@, e.n)]
      [] e.t = "request" ->
           [st EXCEPT !.rsp = Append(@, Frame("accept", 0)),
                      !.wstate = "OPEN"]
      [] e.t = "close" ->
           [st EXCEPT !.puts = Append(@, None),
                      !.closed = TRUE,
                      !.wstate = "REMOTE_CLOSING"]
      [] OTHER ->
           [st EXCEPT !.raised = TRUE]

RECURSIVE process_incoming(_, _)
process_incoming(st, events) ==
    IF events = << >> \/ st.raised THEN st
    ELSE process_incoming(on_event(st, Head(events)), Tail(events))

\* wsconn.receive_data(chunk); wsconn.events(): the decoder yields one
\* event per complete frame, and none for the first part of a handshake
\* request that has not arrived whole
events(chunk) == SelectSeq(chunk, LAMBDA f : f.t # "request_head")

Incoming(chunk) ==
    process_incoming([closed |-> FALSE, rsp |-> << >>, puts |-> << >>,
                      wstate |-> wstate, raised |-> FALSE], events(chunk))

Pending == [st |-> "pending", res |-> << >>]

\* wsconn.receive_data(chunk); closed, rsp = await process_incoming(...);
\* await client.sendall(rsp): the effect on the bridge's own state.  The
\* items already put on in_q stay there when process_incoming raises; rsp
\* is written only when it returns, and sendall raises when it has
\* bytes to write to a broken socket
Receive(chunk) ==
    LET r == Incoming(chunk) IN
    /\ in_q' = in_q \o r.puts
    /\ inLog' = inLog \o r.puts
    /\ wstate' = r.wstate
    /\ IF r.raised \/ (r.rsp # << >> /\ ppc = "reset")
       THEN /\ apc' = "crashed"
            /\ UNCHANGED sockOut
       ELSE /\ apc' = IF r.closed THEN "done" ELSE "wait"
            /\ sockOut' = sockOut \o r.rsp
    /\ wstask' = Pending
    /\ outqtask' = Pending
    /\ firstDone' = "none"

\* ws_adapter before its loop: auth = await client.recv(65535), then as
\* above; recv raises on a broken socket
ws_adapter_handshake ==
    /\ apc = "handshake"
    /\ \/ /\ wire # << >>
          /\ \E n \in 1..Len(wire) :
               /\ Receive(SubSeq(wire, 1, n))
               /\ wire' = SubSeq(wire, n + 1, Len(wire))
       \/ /\ ppc = "reset"
          /\ apc' = "crashed"
          /\ UNCHANGED <<wire, in_q, inLog, wstate, sockOut, wstask,
                         outqtask, firstDone>>
    /\ UNCHANGED <<busvars, ppc, rpc, out_q, peerSent, outLog, taken,
                   dropped, lastCall, supvars, extvars>>

\* a bridge whose loop goes on reading after closed was set
wstask_done_after_close ==
    /\ apc \in {"wait", "done"}
    /\ wstask.st = "pending"
    /\ wire # << >>
    /\ \E n \in 1..Len(wire) :
         /\ wstask' = [st |-> "done", res |-> SubSeq(wire, 1, n)]
         /\ wire' = SubSeq(wire, n + 1, Len(wire))
    /\ firstDone' = IF firstDone = "none" THEN "wstask" ELSE firstDone
    /\ UNCHANGED <<busvars, ppc, rpc, apc, wstate, outqtask, in_q, out_q,
                   peerSent, inLog, outLog, sockOut, taken, dropped,
                   lastCall, supvars, extvars>>

\* wstask = await spawn(client.recv, 65535): the task ends when recv
\* returns some of the bytes the peer sent, or raises
wstask_done ==
    /\ apc = "wait"
    /\ wstask.st = "pending"
    /\ \/ /\ wire # << >>
          /\ \E n \in 1..Len(wire) :
               /\ wstask' = [st |-> "done", res |-> SubSeq(wire, 1, n)]
               /\ wire' = SubSeq(wire, n + 1, Len(wire))
       \/ /\ ppc = "reset"
          /\ wstask' = [st |-> "error", res |-> << >>]
          /\ UNCHANGED wire
    /\ firstDone' = IF firstDone = "none" THEN "wstask" ELSE firstDone
    /\ UNCHANGED <<busvars, ppc, rpc, apc, wstate, outqtask, in_q, out_q,
                   peerSent, inLog, outLog, sockOut, taken, dropped, lastCall, supvars, extvars>>

\* outqtask = await spawn(out_q.get): the task ends with the oldest item
outqtask_done ==
    /\ apc = "wait"
    /\ outqtask.st = "pending"
    /\ out_q # << >>
    /\ outqtask' = [st |-> "done", res |-> <<Head(out_q)>>]
    /\ out_q' = Tail(out_q)
    /\ taken' = Append(taken, Head(out_q))
    /\ firstDone' = IF firstDone = "none" THEN "outqtask" ELSE firstDone
    /\ UNCHANGED <<busvars, ppc, wire, rpc, apc, wstate, wstask, in_q,
                   peerSent, inLog, outLog, sockOut, dropped, lastCall, supvars, extvars>>

\* g.cancel_remaining(): the task that was not returned by next_done() is
\* cancelled; if it had already ended, its result is never joined
Discard(task, kind) ==
    IF task.st = "done" THEN Append(dropped, [kind |-> kind, res |-> task.res])
    ELSE dropped

\* the payload is encoded and never written
data_frames_unsent(result) == << >>

\* payload = wsconn.send(Message(data=result)); await client.sendall(payload):
\* the frames written for one outbound message
data_frames(result) == <<Frame("data", result)>>

\* task = await g.next_done(); result = await task.join();
\* await g.cancel_remaining(); then the branch for the task that ended
ws_adapter_resume ==
    /\ apc = "wait"
    /\ firstDone # "none"
    /\ IF firstDone = "wstask"
       THEN /\ dropped' = Discard(outqtask, "outqtask")
            /\ IF wstask.st = "error"
               THEN /\ apc' = "crashed"
                    /\ wstask' = Pending
                    /\ outqtask' = Pending
                    /\ firstDone' = "none"
                    /\ UNCHANGED <<in_q, inLog, wstate, sockOut>>
               ELSE Receive(wstask.res)
       ELSE /\ dropped' = Discard(wstask, "wstask")
            /\ wstask' = Pending
            /\ outqtask' = Pending
            /\ firstDone' = "none"
            /\ UNCHANGED <<in_q, inLog>>
            /\ IF outqtask.res[1] = None
               THEN \* wsconn.close(); closed = True.  WSConnection has no
                    \* close() in the wsproto API this file uses (send /
                    \* events / receive_data): AttributeError; where it
                    \* exists it only queues the frame inside wsconn.
                    \* Either way nothing is written to the socket
                    \E outcome \in {"raises", "returns"} :
                    /\ apc' = IF outcome = "raises" THEN "crashed" ELSE "done"
                    /\ wstate' = IF outcome = "raises" THEN wstate
                                 ELSE "LOCAL_CLOSING"
                    /\ UNCHANGED sockOut
               ELSE \* payload = wsconn.send(Message(data=result));
                    \* await client.sendall(payload)
                    IF wstate # "OPEN" \/ ppc = "reset"
                    THEN /\ apc' = "crashed"
                         /\ UNCHANGED <<wstate, sockOut>>
                    ELSE /\ sockOut' = sockOut \o data_frames(outqtask.res[1])
                         /\ UNCHANGED <<apc, wstate>>
    /\ UNCHANGED <<busvars, ppc, wire, rpc, out_q, peerSent, outLog, taken,
                   lastCall, supvars, extvars>>

\* ------------------------------------------- WebSocket: runner and handler
\* run_ws: in_q, out_q = Queue(), Queue(); spawn(ws_adapter, ...);
\* await handler(in_q, out_q), and websocket_client up to its first
\* await: register_subscriber(bcast_q, ...), in_q is empty, bcast_q.get()
run_ws_accept ==
    /\ rpc = "idle"
    /\ spc["ws"] = "init"
    /\ rpc' = "handler"
    /\ apc' = "handshake"
    /\ Register("ws")
    /\ spc' = [spc EXCEPT !["ws"] = "get"]
    /\ UNCHANGED <<dispvars, heap, queues, sitem, shutdown, raised,
                   bcOut, ppc, wire, wstate, wstask, outqtask, firstDone,
                   in_q, out_q, peerSent, inLog, outLog, sockOut, taken,
                   dropped, lastCall, supvars, extvars>>

\* a handler that empties in_q at the top of its loop
websocket_client_get_drain ==
    /\ spc["ws"] = "get"
    /\ queues["ws"] # << >>
    /\ queues' = [queues EXCEPT !["ws"] = Tail(@)]
    /\ LET item == Head(queues["ws"])
           leave == \E i \in 1..Len(in_q) : in_q[i] = None
       IN /\ in_q' = << >>
          /\ IF leave
             THEN /\ Unsubscribe("ws")
                  /\ spc' = [spc EXCEPT !["ws"] = "done"]
                  /\ rpc' = "join"
                  /\ out_q' = out_q \o <<item, None>>
                  /\ outLog' = outLog \o <<item, None>>
             ELSE /\ out_q' = Append(out_q, item)
                  /\ outLog' = Append(outLog, item)
                  /\ UNCHANGED <<subscribers, subscriber_names, spc, rpc,
                                 regHist, raised>>
    /\ UNCHANGED <<dispvars, heap, sitem, shutdown, bcOut, ppc, wire, apc,
                   wstate, wstask, outqtask, firstDone, peerSent, inLog,
                   sockOut, taken, dropped, lastCall, supvars, extvars>>

\* websocket_client: device, data = await bcast_q.get();
\* await out_q.put(strdata); then the top of the loop: one item is taken
\* off in_q if there is one, and None breaks out of the loop, through the
\* finally block, back into run_ws: await out_q.put(None)
websocket_client_get ==
    /\ spc["ws"] = "get"
    /\ queues["ws"] # << >>
    /\ queues' = [queues EXCEPT !["ws"] = Tail(@)]
    /\ LET item == Head(queues["ws"])
           leave == in_q # << >> /\ Head(in_q) = None
       IN /\ in_q' = IF in_q # << >> THEN Tail(in_q) ELSE in_q
          /\ IF leave
             THEN /\ Unsubscribe("ws")
                  /\ spc' = [spc EXCEPT !["ws"] = "done"]
                  /\ rpc' = "join"
                  /\ out_q' = q_put(q_put(out_q, item), None)
                  /\ outLog' = outLog \o <<item, None>>
             ELSE /\ out_q' = q_put(out_q, item)
                  /\ outLog' = Append(outLog, item)
                  /\ UNCHANGED <<subscribers, subscriber_names, spc, rpc,
                                 regHist, raised>>
    /\ UNCHANGED <<dispvars, heap, sitem, shutdown, bcOut, ppc, wire, apc,
                   wstate, wstask, outqtask, firstDone, peerSent, inLog,
                   sockOut, taken, dropped, lastCall, supvars, extvars>>

\* except curio.CancelledError: raise / finally: self.unsubscribe(bcast_q);
\* the error leaves run_ws too
websocket_client_cancel ==
    /\ shutdown
    /\ spc["ws"] = "get"
    /\ Unsubscribe("ws")
    /\ spc' = [spc EXCEPT !["ws"] = "cancelled"]
    /\ rpc' = "cancelled"
    /\ UNCHANGED <<dispvars, heap, queues, sitem, shutdown, bcOut, ppc, wire,
                   apc, wstate, wstask, outqtask, firstDone, in_q, out_q,
                   peerSent, inLog, outLog, sockOut, taken, dropped, lastCall, supvars, extvars>>

\* await ws_task.join(): returns when the bridge task has ended
run_ws_join ==
    /\ rpc = "join"
    /\ apc \in {"done", "crashed"}
    /\ rpc' = IF apc = "done" THEN "done" ELSE "failed"
    /\ UNCHANGED <<busvars, ppc, wire, apc, wstate, wstask, outqtask,
                   firstDone, in_q, out_q, peerSent, inLog, outLog, sockOut,
                   taken, dropped, lastCall, supvars, extvars>>

\* run_ws under `__main__`: run(tcp_server, '', port, serve_ws(ws_echo_server)).
\* The queues and the bridge are created and the handler waits on in_q
run_ws_echo_accept ==
    /\ rpc = "idle"
    /\ rpc' = "echo"
    /\ apc' = "handshake"
    /\ UNCHANGED <<busvars, ppc, wire, wstate, wstask, outqtask, firstDone,
                   in_q, out_q, peerSent, inLog, outLog, sockOut, taken,
                   dropped, lastCall, supvars, extvars>>

\* the rounds ws_echo_server has been through: only the handler takes
\* items off in_q
Echoed == Len(inLog) - Len(in_q)

\* msg[::-1]: message n is a text that is not a palindrome, and -n is the
\* same text backwards
reversed(msg) == 0 - msg

\* ws_echo_server: for _ in range(3): msg = await in_queue.get(); None
\* breaks, anything else is put back reversed.  When the handler returns,
\* after the sentinel or after its last round, run_ws goes on:
\* await out_q.put(None)
ws_echo_server_get ==
    /\ rpc = "echo"
    /\ in_q # << >>
    /\ in_q' = Tail(in_q)
    /\ LET msg == Head(in_q)
           last == Echoed + 1 = EchoRounds
       IN IF msg = None
          THEN /\ out_q' = q_put(out_q, None)
               /\ outLog' = Append(outLog, None)
               /\ rpc' = "join"
          ELSE IF last
          THEN /\ out_q' = q_put(q_put(out_q, reversed(msg)), None)
               /\ outLog' = outLog \o <<reversed(msg), None>>
               /\ rpc' = "join"
          ELSE /\ out_q' = q_put(out_q, reversed(msg))
               /\ outLog' = Append(outLog, reversed(msg))
               /\ UNCHANGED rpc
    /\ UNCHANGED <<busvars, ppc, wire, apc, wstate, wstask, outqtask,
                   firstDone, peerSent, inLog, sockOut, taken, dropped,
                   lastCall, supvars, extvars>>

\* ------------------------------------------------- the registry on its own
\* the queues and labels of direct calls to the registry
RegLabels == {"database_writer", "broadcast_client", "websocket_client"}

NoCall == [op |-> "none", q |-> "", name |-> "", subs |-> {},
           names |-> << >>, raised |-> FALSE]

\* self.register_subscriber(q, name), for any queue and label
call_register ==
    \E q \in Sinks, name \in RegLabels :
      LET r == register_subscriber(subscribers, subscriber_names, q, name) IN
      /\ subscribers' = r.subscribers
      /\ subscriber_names' = r.subscriber_names
      /\ lastCall' = [op |-> "register", q |-> q, name |-> name,
                      subs |-> subscribers, names |-> subscriber_names,
                      raised |-> FALSE]
      /\ UNCHANGED <<dispvars, heap, queues, spc, sitem, shutdown, regHist,
                     raised, bcOut, wsvars, supvars, extvars>>

\* self.unsubscribe(q), for any queue
call_unsubscribe ==
    \E q \in Sinks :
      LET r == unsubscribe(subscribers, subscriber_names, q) IN
      /\ subscribers' = r.subscribers
      /\ subscriber_names' = r.subscriber_names
      /\ lastCall' = [op |-> "unsubscribe", q |-> q, name |-> "",
                      subs |-> subscribers, names |-> subscriber_names,
                      raised |-> r.raised]
      /\ UNCHANGED <<dispvars, heap, queues, spc, sitem, shutdown, regHist,
                     raised, bcOut, wsvars, supvars, extvars>>

\* ------------------------------------------------------------ supervisor
\* the tasks run() spawns into its group besides dispatcher,
\* database_writer and broadcaster: the WebSocket listener and a reporter
GroupTasks == {"tcp_server", "reporter"}

\* SensorDB.end_session: the end of the active session is stamped and
\* self.session = None
end_session(s) == "none"

\* a reporter of the group puts a reading while it runs
reporter_put(max) ==
    /\ gtask["reporter"] = "run"
    /\ adc_reporter(max)

\* adc_reporter._reporter: except: raise.  A failing sensor read ends the
\* reporter with that error
reporter_fail ==
    /\ gtask["reporter"] = "run"
    /\ gtask' = [gtask EXCEPT !["reporter"] = "failed"]
    /\ UNCHANGED <<busvars, wsvars, lastCall, extvars, mpc, session, bpc, lpc,
                   sockfile, restart, hups, lgen, restartAt>>

\* g.cancel_remaining() reaches a task of the group
group_task_cancel(t) ==
    /\ shutdown
    /\ gtask[t] = "run"
    /\ gtask' = [gtask EXCEPT ![t] = "cancelled"]
    /\ UNCHANGED <<busvars, wsvars, lastCall, extvars, mpc, session, bpc, lpc,
                   sockfile, restart, hups, lgen, restartAt>>

\* broadcaster up to its first wait: async with SignalQueue(SIGHUP);
\* broadcast_task = await curio.spawn(curio.unix_server, ...);
\* await restart.get()
broadcaster_start ==
    /\ bpc = "init"
    /\ bpc' = "wait"
    /\ lpc' = "spawned"
    /\ lgen' = lgen + 1
    /\ UNCHANGED <<busvars, wsvars, lastCall, extvars, mpc, session, gtask, sockfile,
                   restart, hups, restartAt>>

\* curio.unix_server: sock.bind(path); sock.listen().  bind creates the
\* socket file and fails with EADDRINUSE when the path exists; nothing
\* removes the file when a listener ends (__init__ unlinks it once)
unix_server_bind ==
    /\ lpc = "spawned"
    /\ lpc' = IF sockfile THEN "failed" ELSE "listening"
    /\ sockfile' = TRUE
    /\ UNCHANGED <<busvars, wsvars, lastCall, extvars, mpc, session, gtask, bpc,
                   restart, hups, lgen, restartAt>>

\* the listener accepts a connection and spawns broadcast_client for it
unix_server_accept ==
    /\ lpc = "listening"
    /\ broadcast_client_start

\* SIGHUP arrives while the SignalQueue is installed
sighup(max) ==
    /\ bpc = "wait"
    /\ hups < max
    /\ hups' = hups + 1
    /\ restart' = restart + 1
    /\ UNCHANGED <<busvars, wsvars, lastCall, extvars, mpc, session, gtask, bpc, lpc,
                   sockfile, lgen, restartAt>>

\* a restart that takes the open connections down with the listener
broadcaster_restart_drops ==
    /\ bpc = "wait"
    /\ restart > 0
    /\ restart' = restart - 1
    /\ \E bound \in (IF lpc = "spawned" THEN {sockfile, TRUE} ELSE {sockfile}) :
         sockfile' = bound
    /\ lpc' = "spawned"
    /\ lgen' = lgen + 1
    /\ restartAt' = Len(deqOrder)
    /\ spc' = [spc EXCEPT !["bc"] = IF @ \in {"get", "write"}
                                     THEN "end_stream" ELSE @]
    /\ UNCHANGED <<dispvars, heap, subscribers, subscriber_names, queues,
                   sitem, shutdown, regHist, raised, bcOut, wsvars, lastCall, extvars,
                   mpc, session, gtask, bpc, hups>>

\* await restart.get() returns; await broadcast_task.cancel(): the
\* listener ends in accept (one that had not run yet may or may not have
\* bound its socket), the handlers it spawned are tasks of their own and
\* go on; then the next round of the loop spawns a new unix_server
broadcaster_restart ==
    /\ bpc = "wait"
    /\ restart > 0
    /\ restart' = restart - 1
    /\ \E bound \in (IF lpc = "spawned" THEN {sockfile, TRUE} ELSE {sockfile}) :
         sockfile' = bound
    /\ lpc' = "spawned"
    /\ lgen' = lgen + 1
    /\ restartAt' = Len(deqOrder)
    /\ UNCHANGED <<busvars, wsvars, lastCall, extvars, mpc, session, gtask, bpc, hups>>

\* g.cancel_remaining() reaches broadcaster, in restart.get() or before it
\* first ran; broadcast_task is not a task of the group and is left alone
broadcaster_cancel ==
    /\ shutdown
    /\ bpc \in {"init", "wait"}
    /\ bpc' = "cancelled"
    /\ UNCHANGED <<busvars, wsvars, lastCall, extvars, mpc, session, gtask, lpc,
                   sockfile, restart, hups, lgen, restartAt>>

\* the tasks of run()'s group have all ended
GroupEnded ==
    /\ dpc = "cancelled"
    /\ spc["db"] \in Terminated
    /\ bpc = "cancelled"
    /\ \A t \in GroupTasks : gtask[t] # "run"

\* a task of the group ended with an error of its own
GroupFailed ==
    \/ spc["db"] = "failed"
    \/ \E t \in GroupTasks : gtask[t] = "failed"

\* run(): g.cancel_remaining() has returned and the async with block
\* joins the group: TaskGroup.join raises TaskGroupError when a task of
\* the group ended with an error, and then line 205 is not reached;
\* otherwise self.sensor_db.end_session()
run_exit ==
    /\ shutdown
    /\ mpc = "run"
    /\ GroupEnded
    /\ IF GroupFailed
       THEN mpc' = "failed" /\ UNCHANGED session
       ELSE mpc' = "done" /\ session' = end_session(session)
    /\ UNCHANGED <<busvars, wsvars, lastCall, extvars, gtask, bpc, lpc, sockfile,
                   restart, hups, lgen, restartAt>>

\* ---------------------------------------------------------- specifications
\* SensorServer.__init__, and run() with its tasks spawned and not yet run;
\* no WebSocket or broadcast connection has been accepted
\* ------------------------------------------------- shutdown of a connection
\* the kernel shuts down after run() has returned: ws_adapter, spawned by
\* run_ws outside of any group, is cancelled where it waits (client.recv of
\* the handshake, or g.next_done()); it has no handler for the cancellation
\* and writes nothing
ws_adapter_cancel ==
    /\ shutdown
    /\ rpc = "cancelled"
    /\ apc \in {"handshake", "wait"}
    /\ apc' = "cancelled"
    /\ UNCHANGED <<busvars, ppc, wire, rpc, wstate, wstask, outqtask,
                   firstDone, in_q, out_q, peerSent, inLog, outLog, sockOut,
                   taken, dropped, lastCall, supvars, extvars>>

\* ---------------------------------------------------------------- SensorDB
NoDbCall == [op |-> "none", session |-> None, sessions |-> << >>,
             rows |-> << >>, raised |-> "", result |-> << >>]

\* _check_session that lets every call through
check_session_skipped(s) == ""

\* SensorDB._check_session: the message of the RuntimeError it raises, or ""
check_session(s) == IF s = None THEN "No active session." ELSE ""

\* SensorDB.end_session at time t: the session's row gets its end stamp
end_session_at(tbl, s, t) ==
    IF s = None
    THEN [session |-> None, sessions |-> tbl]
    ELSE [session |-> None, sessions |-> [tbl EXCEPT ![s].end = t]]

\* start_session that leaves the active session open
start_session_unclosed(tbl, s, t) ==
    [session |-> Len(tbl) + 1,
     sessions |-> Append(tbl, [start |-> t, end |-> None])]

\* SensorDB.start_session at time t: sessions_table.insert returns the new
\* row's primary key
start_session_at(tbl, s, t) ==
    LET e == IF s # None THEN end_session_at(tbl, s, t)
                         ELSE [session |-> s, sessions |-> tbl]
    IN [session |-> Len(e.sessions) + 1,
        sessions |-> Append(e.sessions, [start |-> t, end |-> None])]

\* the rows of a device table with the given session_id
find(rows, s) == SelectSeq(rows, LAMBDA r : r.session_id = s)

DbCall(op, err, result) ==
    /\ clock < MaxDbCalls
    /\ clock' = clock + 1
    /\ lastDb' = [op |-> op, session |-> db_session,
                  sessions |-> sessions_table, rows |-> device_table,
                  raised |-> err, result |-> result]
    /\ UNCHANGED <<busvars, wsvars, lastCall, supvars, temps, polls, origin>>

\* db.start_session()
call_start_session ==
    LET r == start_session_at(sessions_table, db_session, clock + 1) IN
    /\ db_session' = r.session
    /\ sessions_table' = r.sessions
    /\ UNCHANGED device_table
    /\ DbCall("start_session", "", << >>)

\* db.end_session(), also what __del__ does
call_end_session ==
    LET r == end_session_at(sessions_table, db_session, clock + 1) IN
    /\ db_session' = r.session
    /\ sessions_table' = r.sessions
    /\ UNCHANGED device_table
    /\ DbCall("end_session", "", << >>)

\* db.insert_readings(device_name, readings), for a known or an unknown
\* device and a reading with or without its 'time' field
call_insert_readings ==
    \E keys \in {ReadingKeys, {"value"}}, known \in BOOLEAN :
      LET err == IF check_session(db_session) # ""
                 THEN check_session(db_session)
                 ELSE IF "time" \notin keys THEN "ValueError: time"
                 ELSE IF ~known THEN "ValueError: device"
                 ELSE ""
      IN /\ device_table' =
              IF err = ""
              THEN Append(device_table, [time |-> clock + 1,
                                         keys |-> insert_readings(keys),
                                         session_id |-> db_session])
              ELSE device_table
         /\ UNCHANGED <<db_session, sessions_table>>
         /\ DbCall("insert_readings", err, << >>)

\* db.query_session_readings(device_name)
call_query_session_readings ==
    LET err == check_session(db_session) IN
    /\ UNCHANGED <<db_session, sessions_table, device_table>>
    /\ DbCall("query_session_readings", err,
              IF err = "" THEN find(device_table, db_session) ELSE << >>)

\* --------------------------------------------------- one-wire producer
\* temps = await curio.run_in_thread(multisensor.read): one poll cycle
\* returns PollSize readings
multionewire_read ==
    /\ temps = << >>
    /\ polls < MaxPolls
    /\ polls' = polls + 1
    /\ temps' = [i \in 1..PollSize |-> i]
    /\ UNCHANGED <<busvars, wsvars, lastCall, supvars, db_session,
                   sessions_table, device_table, clock, lastDb, origin>>

\* for temp in temps: await readings.put(temp)
multionewire_put ==
    /\ temps # << >>
    /\ heap' = Append(heap, ReadingKeys)
    /\ readings' = q_put(readings, Len(heap) + 1)
    /\ origin' = origin \cup {[b |-> Len(heap) + 1, poll |-> polls,
                               idx |-> Head(temps)]}
    /\ temps' = Tail(temps)
    /\ UNCHANGED <<subscribers, subscriber_names, queues, dpc, dreading,
                   dsnap, spc, sitem, shutdown, deqOrder, snapAt, putlog,
                   regHist, raised, bcOut, wsvars, lastCall, supvars,
                   db_session, sessions_table, device_table, clock, lastDb,
                   polls>>

Init ==
    /\ readings = << >>
    /\ heap = << >>
    /\ subscribers = {}
    /\ subscriber_names = << >>
    /\ queues = [s \in Sinks |-> << >>]
    /\ dpc = "get"
    /\ dreading = 0
    /\ dsnap = {}
    /\ spc = [s \in Sinks |-> "init"]
    /\ sitem = [s \in Sinks |-> [b |-> 0, keys |-> {}]]
    /\ shutdown = FALSE
    /\ deqOrder = << >>
    /\ snapAt = << >>
    /\ putlog = << >>
    /\ regHist = [s \in Sinks |-> [reg |-> -1, regMid |-> FALSE,
                                     unreg |-> -1, unregMid |-> FALSE]]
    /\ raised = FALSE
    /\ bcOut = << >>
    /\ lastCall = NoCall
    /\ ppc = "new"
    /\ wire = << >>
    /\ rpc = "idle"
    /\ apc = "init"
    /\ wstate = "CONNECTING"
    /\ wstask = Pending
    /\ outqtask = Pending
    /\ firstDone = "none"
    /\ in_q = << >>
    /\ out_q = << >>
    /\ peerSent = << >>
    /\ inLog = << >>
    /\ outLog = << >>
    /\ sockOut = << >>
    /\ taken = << >>
    /\ dropped = << >>
    /\ mpc = "run"
    /\ session = "active"
    /\ gtask = [t \in GroupTasks |-> "run"]
    /\ bpc = "init"
    /\ lpc = "none"
    /\ sockfile = FALSE
    /\ restart = 0
    /\ hups = 0
    /\ lgen = 0
    /\ restartAt = -1
    /\ db_session = 1
    /\ sessions_table = <<[start |-> 0, end |-> None]>>
    /\ device_table = << >>
    /\ clock = 0
    /\ lastDb = NoDbCall
    /\ temps = << >>
    /\ polls = 0
    /\ origin = {}

\* the bus: producers, dispatcher, database_writer, one broadcast
\* connection, and run()'s shutdown
Next ==
    \/ adc_reporter(MaxReadings)
    \/ dispatcher_get
    \/ dispatcher_put
    \/ dispatcher_cancel
    \/ signal_shutdown
    \/ \E s \in {"db", "bc"} : sink_cancel_unstarted(s)
    \/ database_writer_start
    \/ database_writer_write
    \/ database_writer_cancel
    \/ broadcast_client_start
    \/ broadcast_client_get
    \/ broadcast_client_write
    \/ broadcast_client_cancel
    \/ broadcast_client_end_stream

Spec == Init /\ [][Next]_vars

\* the bus when the dispatcher runs whenever it can; producers and sinks
\* are free to stop
SpecBusFair ==
    /\ Spec
    /\ WF_vars(dispatcher_get)
    /\ WF_vars(dispatcher_put)

\* one WebSocket connection: the peer, ws_adapter with its two tasks,
\* run_ws, websocket_client, and the bus that feeds it
NextWS ==
    \/ adc_reporter(WsReadings)
    \/ dispatcher_get
    \/ dispatcher_put
    \/ peer_request
    \/ peer_send(MaxFrames, MaxPings)
    \/ peer_reset
    \/ ws_adapter_handshake
    \/ wstask_done
    \/ outqtask_done
    \/ ws_adapter_resume
    \/ run_ws_accept
    \/ websocket_client_get
    \/ run_ws_join

SpecWS == Init /\ [][NextWS]_vars

\* one connection to the echo server of ws_server.py
NextEcho ==
    \/ peer_request
    \/ peer_send(EchoFrames, EchoPings)
    \/ peer_reset
    \/ ws_adapter_handshake
    \/ wstask_done
    \/ outqtask_done
    \/ ws_adapter_resume
    \/ run_ws_echo_accept
    \/ ws_echo_server_get
    \/ run_ws_join

SpecEcho == Init /\ [][NextEcho]_vars

\* the supervisor: run() with its group, the broadcast listener and one
\* broadcast connection
NextSup ==
    \/ reporter_put(SupReadings)
    \/ reporter_fail
    \/ dispatcher_get
    \/ dispatcher_put
    \/ dispatcher_cancel
    \/ signal_shutdown
    \/ \E t \in GroupTasks : group_task_cancel(t)
    \/ sink_cancel_unstarted("db")
    \/ database_writer_start
    \/ database_writer_write
    \/ database_writer_cancel
    \/ broadcaster_start
    \/ unix_server_bind
    \/ unix_server_accept
    \/ sighup(MaxRestarts)
    \/ broadcaster_restart
    \/ broadcaster_cancel
    \/ broadcast_client_get
    \/ broadcast_client_write
    \/ broadcast_client_cancel
    \/ broadcast_client_end_stream
    \/ run_exit

SpecSup == Init /\ [][NextSup]_vars

\* curio runs every task that is ready: the bridge and its two tasks are
\* not left waiting once they can go on
SpecWSFair ==
    /\ SpecWS
    /\ WF_vars(ws_adapter_handshake)
    /\ WF_vars(wstask_done)
    /\ WF_vars(outqtask_done)
    /\ WF_vars(ws_adapter_resume)

\* the same connection when every task of the server that can go on does:
\* producer, dispatcher, handler, runner and bridge (the peer is free)
SpecWSLive ==
    /\ SpecWSFair
    /\ WF_vars(adc_reporter(WsReadings))
    /\ WF_vars(dispatcher_get)
    /\ WF_vars(dispatcher_put)
    /\ WF_vars(run_ws_accept)
    /\ WF_vars(websocket_client_get)
    /\ WF_vars(run_ws_join)

\* everything together
NextAll ==
    \/ adc_reporter(AllReadings)
    \/ dispatcher_get
    \/ dispatcher_put
    \/ dispatcher_cancel
    \/ signal_shutdown
    \/ \E s \in Sinks : sink_cancel_unstarted(s)
    \/ database_writer_start
    \/ database_writer_write
    \/ database_writer_cancel
    \/ broadcast_client_start
    \/ broadcast_client_get
    \/ broadcast_client_write
    \/ broadcast_client_cancel
    \/ broadcast_client_end_stream
    \/ peer_request
    \/ peer_send(AllFrames, AllPings)
    \/ peer_reset
    \/ ws_adapter_handshake
    \/ wstask_done
    \/ outqtask_done
    \/ ws_adapter_resume
    \/ run_ws_accept
    \/ websocket_client_get
    \/ websocket_client_cancel
    \/ run_ws_join

SpecAll == Init /\ [][NextAll]_vars

\* one WebSocket connection and the shutdown of the server: run() cancels
\* its group, the handler is cancelled in bcast_q.get(), and the kernel
\* cancels what is left
NextShut ==
    \/ adc_reporter(ShutReadings)
    \/ dispatcher_get
    \/ dispatcher_put
    \/ dispatcher_cancel
    \/ signal_shutdown
    \/ sink_cancel_unstarted("ws")
    \/ peer_request
    \/ peer_send(ShutFrames, ShutPings)
    \/ peer_reset
    \/ ws_adapter_handshake
    \/ wstask_done
    \/ outqtask_done
    \/ ws_adapter_resume
    \/ ws_adapter_cancel
    \/ run_ws_accept
    \/ websocket_client_get
    \/ websocket_client_cancel
    \/ run_ws_join

\* every task of the server that can go on does; the peer is free
SpecShut ==
    /\ Init /\ [][NextShut]_vars
    /\ WF_vars(ws_adapter_handshake)
    /\ WF_vars(wstask_done)
    /\ WF_vars(outqtask_done)
    /\ WF_vars(ws_adapter_resume)
    /\ WF_vars(ws_adapter_cancel)
    /\ WF_vars(websocket_client_get)
    /\ WF_vars(websocket_client_cancel)
    /\ WF_vars(run_ws_join)


\* a SensorDB on its own, called in any order
NextDB ==
    \/ call_start_session
    \/ call_end_session
    \/ call_insert_readings
    \/ call_query_session_readings

SpecDB == Init /\ [][NextDB]_vars

\* two producers on the bus: the one-wire reporter with its poll cycles
\* and the ADC reporter, the dispatcher, and two subscribers
NextMulti ==
    \/ multionewire_read
    \/ multionewire_put
    \/ adc_reporter(MultiReadings)
    \/ dispatcher_get
    \/ dispatcher_put
    \/ database_writer_start
    \/ database_writer_write
    \/ broadcast_client_start
    \/ broadcast_client_get
    \/ broadcast_client_write

SpecMulti == Init /\ [][NextMulti]_vars

\* one connection to the echo server, with a peer that may go on sending
\* after the handler's three rounds
NextEchoLive ==
    \/ peer_request
    \/ peer_send(LiveFrames, EchoPings)
    \/ peer_reset
    \/ ws_adapter_handshake
    \/ wstask_done
    \/ outqtask_done
    \/ ws_adapter_resume
    \/ run_ws_echo_accept
    \/ ws_echo_server_get
    \/ run_ws_join

\* every task of the server that can go on does; the peer is free
SpecEchoLive ==
    /\ Init /\ [][NextEchoLive]_vars
    /\ WF_vars(ws_adapter_handshake)
    /\ WF_vars(wstask_done)
    /\ WF_vars(outqtask_done)
    /\ WF_vars(ws_adapter_resume)
    /\ WF_vars(ws_echo_server_get)
    /\ WF_vars(run_ws_join)

NextReg == call_register \/ call_unsubscribe

SpecReg == Init /\ [][NextReg]_vars

\* ------------------------------------------------------------ properties
\* position of reading b in the dispatcher's dequeue order
Pos(b) == CHOOSE k \in 1..Len(deqOrder) : deqOrder[k] = b

\* the dispatch cycle of the k-th dequeued reading is over
CycleDone(k) == k < Len(deqOrder) \/ dpc # "put"

\* how many times the k-th dequeued reading was put on queue q
Puts(k, q) ==
    Cardinality({i \in 1..Len(putlog) :
                   putlog[i] = [b |-> deqOrder[k], q |-> q]})

\* the readings put on queue q, as positions in the dequeue order
Delivered(q) ==
    LET mine == SelectSeq(putlog, LAMBDA e : e.q = q)
    IN [i \in 1..Len(mine) |-> Pos(mine[i].b)]

IsSuffix(s, t) ==
    /\ Len(s) <= Len(t)
    /\ s = SubSeq(t, Len(t) - Len(s) + 1, Len(t))

OnePutPerSnapshotQueue ==
    \A k \in 1..Len(deqOrder) : \A q \in Sinks :
      IF CycleDone(k)
      THEN Puts(k, q) = (IF q \in snapAt[k] THEN 1 ELSE 0)
      ELSE /\ Puts(k, q) <= 1
           /\ Puts(k, q) = 1 => q \in snapAt[k]

\* C1: every reading dequeued while N queues are registered is put exactly
\* once on each of them and on no other queue, and what a subscriber finds
\* in its queue and reads back from it is the reading as it was pushed to
\* ingress, field for field.
C1_FanOutUnmodified ==
    /\ OnePutPerSnapshotQueue
    /\ \A q \in Sinks : \A i \in 1..Len(queues[q]) :
         heap[queues[q][i]] = ReadingKeys
    /\ spc["bc"] = "write" => sitem["bc"].keys = ReadingKeys

\* C2: unsubscribe never raises, also in the middle of a dispatch cycle,
\* and no reading the dispatcher dequeues after a queue was unsubscribed is
\* put on that queue.
C2_NoPutAfterUnsubscribe ==
    /\ ~raised
    /\ \A i \in 1..Len(putlog) :
         regHist[putlog[i].q].unreg # -1
           => Pos(putlog[i].b) <= regHist[putlog[i].q].unreg

\* a queue was unsubscribed in the middle of a dispatch cycle, and a later
\* reading went to the queues that were still registered
C2_Witness ==
    \E q \in Sinks :
      /\ regHist[q].unregMid
      /\ \E i \in 1..Len(putlog) : Pos(putlog[i].b) > regHist[q].unreg

\* C3: the dispatcher works on the snapshot it took when it dequeued the
\* reading: with registrations and unsubscriptions between its puts, every
\* queue of the snapshot gets the reading exactly once, none is skipped or
\* served twice, and a queue registered later gets nothing of this cycle.
C3_SnapshotExactlyOnce ==
    /\ dpc \in {"get", "put", "cancelled"}
    /\ OnePutPerSnapshotQueue
    /\ dpc = "put" => dsnap \subseteq snapAt[Len(deqOrder)]
    /\ dpc = "put" =>
         \A q \in snapAt[Len(deqOrder)] :
           Puts(Len(deqOrder), q) = (IF q \in dsnap THEN 0 ELSE 1)

\* one queue was unsubscribed and another registered in the middle of
\* dispatch cycles that have run to their end
C3_Witness ==
    \E q1, q2 \in Sinks :
      /\ regHist[q1].unregMid /\ regHist[q1].unreg >= 1
      /\ CycleDone(regHist[q1].unreg)
      /\ q1 \in snapAt[regHist[q1].unreg]
      /\ regHist[q2].regMid
      /\ CycleDone(regHist[q2].reg)

\* C4: a subscriber queue holds the readings in the order the dispatcher
\* dequeued them: what was put on it is a run of consecutive readings of
\* the dequeue order, starting after its registration and ending no later
\* than the cycle in which it was unsubscribed, and the queue's content is
\* the tail of that run, oldest first.
C4_DequeueOrder ==
    \A q \in Sinks :
      LET d == Delivered(q) IN
      /\ \A i \in 1..Len(d) - 1 : d[i + 1] = d[i] + 1
      /\ d # << >> => d[1] = regHist[q].reg + 1
      /\ (d # << >> /\ regHist[q].unreg # -1) => d[Len(d)] <= regHist[q].unreg
      /\ IsSuffix([i \in 1..Len(queues[q]) |-> Pos(queues[q][i])], d)

\* a queue registered after the first reading was dequeued holds two
\* readings
C4_Witness ==
    \E q \in Sinks :
      /\ regHist[q].reg >= 1
      /\ Len(queues[q]) >= 2

\* C5: register_subscriber on a registered queue changes nothing, whatever
\* label it is given, and unsubscribe on an absent queue changes nothing and
\* raises nothing; on an absent queue register adds it with the label, on a
\* registered queue unsubscribe removes it and its label.  So a second
\* register or unsubscribe after the first is without effect.
C5_Idempotent ==
    LET q == lastCall.q IN
    /\ lastCall.op = "register" =>
         IF q \in lastCall.subs
         THEN subscribers = lastCall.subs /\ subscriber_names = lastCall.names
         ELSE /\ subscribers = lastCall.subs \cup {q}
              /\ subscriber_names[q] = lastCall.name
    /\ lastCall.op = "unsubscribe" =>
         /\ ~lastCall.raised
         /\ IF q \notin lastCall.subs
            THEN subscribers = lastCall.subs /\ subscriber_names = lastCall.names
            ELSE subscribers = lastCall.subs \ {q} /\ q \notin DOMAIN subscriber_names
    /\ \A x \in Sinks, n \in RegLabels :
         LET once == register_subscriber(subscribers, subscriber_names, x, n)
             gone == unsubscribe(subscribers, subscriber_names, x)
         IN /\ \A m \in RegLabels :
                 register_subscriber(once.subscribers, once.subscriber_names,
                                     x, m) = once
            /\ unsubscribe(gone.subscribers, gone.subscriber_names, x) = gone

\* a registered queue was registered again under another label
C5_Witness ==
    /\ lastCall.op = "register"
    /\ lastCall.q \in lastCall.subs
    /\ lastCall.names[lastCall.q] # lastCall.name

\* C6: a sink task that has ended, by returning, by an error or by
\* cancellation, has no queue left in the registry.
C6_TerminatedSinkUnregistered ==
    \A s \in Sinks :
      spc[s] \in Terminated =>
        s \notin subscribers /\ s \notin DOMAIN subscriber_names

\* the three sinks had registered and have ended: database_writer by a
\* storage error, broadcast_client by cancellation, websocket_client by
\* returning
C6_Witness ==
    /\ \A s \in Sinks : regHist[s].reg # -1
    /\ spc["db"] = "failed"
    /\ spc["bc"] = "cancelled"
    /\ spc["ws"] = "done"

\* the items of a queue log that are not the sentinel
DataItems(seq) == SelectSeq(seq, LAMBDA x : x # None)

IsPrefix(s, t) == Len(s) <= Len(t) /\ s = SubSeq(t, 1, Len(s))

\* the bridge has left the handshake and is waiting in its loop, with
\* neither of its two tasks ended
Rearmed ==
    /\ apc = "wait"
    /\ wstate = "OPEN"
    /\ wstask = Pending
    /\ outqtask = Pending
    /\ firstDone = "none"

\* C7: while nothing was ever put on out_q and the peer has sent data
\* frames only, the bridge stays in its loop, the items put on in_q are the
\* payloads of the frames in the order they were sent, all N of them once
\* the bridge has read what was sent, and no data frame is written.
C7_InboundOnly ==
    (/\ outLog = << >>
     /\ ppc = "requested"
     /\ \A i \in 1..Len(peerSent) : peerSent[i].t = "data")
    => /\ apc # "crashed"
       /\ Accepted => apc = "wait"
       /\ IsPrefix(inLog, Payloads(peerSent))
       /\ Count(sockOut, "data") = 0
       /\ (Rearmed /\ wire = << >>) => inLog = Payloads(peerSent)

\* the peer has sent two data frames, nothing was put on out_q, and the
\* bridge has read them and waits again
C7_Witness ==
    /\ outLog = << >>
    /\ ppc = "requested"
    /\ Len(peerSent) = 2 /\ \A i \in 1..Len(peerSent) : peerSent[i].t = "data"
    /\ Rearmed /\ wire = << >>
    /\ inLog = <<1, 2>>

\* the peer has sent nothing since its handshake request
NoInbound == peerSent = << >> /\ ppc = "requested"

\* the message an ended out_q.get() holds for the bridge to join
Held == IF outqtask.st = "done" THEN DataItems(outqtask.res) ELSE << >>

\* message m is on out_q of an open bridge, with no inbound traffic
Queued(m) ==
    /\ NoInbound
    /\ apc = "wait" /\ wstate = "OPEN"
    /\ \E i \in 1..Len(out_q) : out_q[i] = m

\* message m has been written as a data frame and the bridge waits again
\* on the socket and on out_q
Written(m) ==
    /\ \E i \in 1..Len(sockOut) : sockOut[i] = Frame("data", m)
    /\ Rearmed

\* C8: with no inbound traffic, a message put on out_q of an open bridge is
\* written as exactly one data frame, without any byte from the peer, and
\* the bridge then waits on the socket and on out_q again: the bridge stays
\* in its loop, the frames written are the messages taken off out_q, one
\* frame each and in order, and every queued message gets written.
C8_OutboundOnly ==
    /\ [](NoInbound /\ Accepted =>
            /\ apc = "wait"
            /\ IsSuffix(Payloads(sockOut) \o Held, DataItems(taken))
            /\ \A m \in 1..WsReadings :
                 Cardinality({i \in 1..Len(sockOut) :
                                sockOut[i] = Frame("data", m)}) <= 1)
    /\ \A m \in 1..WsReadings : Queued(m) ~> (Written(m) \/ ~NoInbound)

\* one message was written, the peer has sent nothing, the bridge waits
C8_Witness ==
    /\ NoInbound
    /\ Count(sockOut, "data") = 1
    /\ taken = Payloads(sockOut)
    /\ Rearmed

\* the bridge, after its handshake, has acted on the sentinel it took off
\* out_q
SentinelJoined ==
    /\ Accepted
    /\ \E i \in 1..Len(taken) : taken[i] = None
    /\ outqtask.res # <<None>>
    /\ \A i \in 1..Len(dropped) : dropped[i].res # <<None>>

\* C9: once the open bridge has acted on the sentinel taken off out_q, its
\* loop has ended and exactly one close frame has been written to the
\* socket.
C9_SentinelCloseFrame ==
    SentinelJoined => apc = "done" /\ Count(sockOut, "close") = 1

\* a recv of the bridge has returned the peer's close frame, and the round
\* of the loop in which it returned is over
CloseReceived ==
    /\ ppc = "closed"
    /\ \A i \in 1..Len(wire) : wire[i].t # "close"
    /\ \A i \in 1..Len(wstask.res) : wstask.res[i].t # "close"

\* C10: once a close frame of the peer, sent after data frames only, was
\* received, exactly one sentinel has been put on in_q and the loop of the
\* bridge has ended, with no further socket read or out_q.get.
C10_PeerCloseSentinel ==
    (CloseReceived /\ Count(peerSent, "ping") = 0)
    => /\ Cardinality({i \in 1..Len(inLog) : inLog[i] = None}) = 1
       /\ apc = "done"

\* the close frame went through process_incoming: what holds of it
CloseProcessed ==
    (\E i \in 1..Len(inLog) : inLog[i] = None)
    => /\ Cardinality({i \in 1..Len(inLog) : inLog[i] = None}) = 1
       /\ inLog[Len(inLog)] = None
       /\ apc = "done"

\* C11: once the bridge has ended on an error (an event it cannot handle, a
\* write or a read on a broken socket), the connection's subscriber queue
\* gets unregistered from the bus.
C11_BridgeErrorUnregisters ==
    (apc = "crashed") ~> ("ws" \notin subscribers)

\* C12: the subscriber queue of a WebSocket connection is in the registry
\* only if the accept response of its handshake has been written.
C12_RegisteredAfterAccept ==
    "ws" \in subscribers => Accepted

\* C13: no data frame is written before the accept response, and a bridge
\* that is still in its handshake, on a working socket, has not crashed.
C13_NoDataBeforeAccept ==
    /\ \A i \in 1..Len(sockOut) :
         sockOut[i].t = "data" => \E j \in 1..(i - 1) : sockOut[j].t = "accept"
    /\ (wstate = "CONNECTING" /\ ppc # "reset") => apc # "crashed"

\* every ping the peer sent has been returned by a recv whose round of the
\* loop is over, on a connection the peer neither closed nor broke
PingsReceived ==
    /\ ppc = "requested"
    /\ Count(peerSent, "ping") > 0
    /\ Count(wire, "ping") = 0
    /\ Count(wstask.res, "ping") = 0

\* C14: once a ping of the peer was received on an open bridge, a pong has
\* been written to the socket for it and the bridge is still in its loop.
C14_PingAnswered ==
    PingsReceived =>
      /\ Count(sockOut, "pong") = Count(peerSent, "ping")
      /\ apc = "wait"

\* the batches websocket_client has taken off its subscriber queue
Dequeued(q) ==
    LET mine == SelectSeq(putlog, LAMBDA e : e.q = q)
    IN [i \in 1..(Len(mine) - Len(queues[q])) |-> mine[i].b]

\* C15: the items put on out_q are the batches the handler dequeued, one
\* each and in order, and while the bridge runs every one of them is
\* either written as one data frame, in order, or still waiting to be.
C15_OneFramePerBatch ==
    /\ DataItems(outLog) = Dequeued("ws")
    /\ apc = "wait" =>
         Payloads(sockOut) \o Held \o DataItems(out_q) = DataItems(outLog)

\* the dispatch cycles that began after queue q left the registry
CyclesAfterUnsubscribe(q) ==
    {k \in 1..Len(snapAt) : k > regHist[q].unreg}

EndStreams == {i \in 1..Len(bcOut) : bcOut[i].keys = {"msg"}}

\* C17: a broadcast handler that is cancelled while it serves its
\* connection writes END_STREAM once, as the last record of the
\* connection, while its queue is still registered, and its queue is
\* unregistered afterwards, also when that write fails.
C17_EndStreamThenUnsubscribe ==
    /\ EndStreams \subseteq {Len(bcOut)}
    /\ spc["bc"] = "end_stream" => "bc" \in subscribers /\ EndStreams = {}
    /\ (regHist["bc"].reg # -1 /\ spc["bc"] = "cancelled") =>
         EndStreams = {Len(bcOut)} /\ "bc" \notin subscribers
    /\ spc["bc"] = "failed" => EndStreams = {} /\ "bc" \notin subscribers

\* the handler wrote a batch record, was cancelled, wrote END_STREAM after
\* it and has unregistered
C17_Witness ==
    /\ spc["bc"] = "cancelled"
    /\ Len(bcOut) = 2
    /\ bcOut[1].b # 0
    /\ EndStreams = {2}
    /\ regHist["bc"].unreg # -1

\* a restart has been served and the restart loop waits for the next one,
\* with no shutdown under way
RestartServed == ~shutdown /\ lgen >= 2 /\ bpc = "wait"

\* C18: after a restart notification was served, a new listener is there
\* on the same address, the restart loop waits for the next notification,
\* and no task of run()'s group has been cancelled.
C18_RestartStartsListener ==
    RestartServed =>
      /\ lpc \in {"spawned", "listening"}
      /\ dpc # "cancelled"
      /\ spc["db"] # "cancelled"
      /\ \A t \in GroupTasks : gtask[t] # "cancelled"

\* the dispatch cycles the connection of broadcast_client was registered
\* for and that began after the last restart
CyclesAfterRestart ==
    {k \in 1..Len(snapAt) : k > regHist["bc"].reg /\ k > restartAt}

\* C19: without a shutdown the connection handler is never cancelled, so
\* not by a restart, and a handler that is running after a restart still
\* has its queue registered and has got every batch dispatched since.
C19_RestartKeepsConnections ==
    ~shutdown =>
      /\ spc["bc"] \notin {"end_stream", "cancelled", "failed"}
      /\ (restartAt # -1 /\ spc["bc"] \in {"get", "write"}) =>
           /\ "bc" \in subscribers
           /\ \A k \in CyclesAfterRestart :
                /\ "bc" \in snapAt[k]
                /\ CycleDone(k) => Puts(k, "bc") = 1

\* the first listener accepted the connection, a restart was served (the
\* new listener could not bind, so it accepted nothing), and the handler
\* has written a batch that was dispatched after the restart
C19_Witness ==
    /\ ~shutdown
    /\ lgen >= 2
    /\ lpc = "failed"
    /\ spc["bc"] = "get"
    /\ \E i \in 1..Len(bcOut) : Pos(bcOut[i].b) > restartAt

\* C20: once run() is over after a shutdown signal, with every task of its
\* group ended, no session is active.
C20_SessionClosedAfterShutdown ==
    mpc # "run" => shutdown /\ GroupEnded /\ session # "active"

\* the server was shut down over an open connection: the handler was
\* cancelled while the bridge was Open and the peer had not closed
ShutdownWhileOpen ==
    /\ shutdown
    /\ rpc = "cancelled"
    /\ apc = "wait"
    /\ wstate = "OPEN"
    /\ ppc = "requested"

\* the bridge has taken the sentinel off out_q and acted on it: it went
\* through wsconn.close() and client.sendall
CloseAttempted ==
    /\ apc \in {"done", "crashed"}
    /\ \E i \in 1..Len(taken) : taken[i] = None

\* C21: when the server is shut down while a WebSocket connection is Open,
\* the bridge of that connection goes on to attempt the close frame, and it
\* ends.
C21_ShutdownClosesBridge ==
    ShutdownWhileOpen ~> (CloseAttempted \/ ppc # "requested")

\* C22: insert_readings and query_session_readings called with no active
\* session raise 'No active session.' and leave the tables and the session
\* as they were; a call of insert_readings with an active session appends
\* rows tagged with that session only, and no stored row is without a
\* session id.
C22_NoSessionNoInsert ==
    /\ (lastDb.op \in {"insert_readings", "query_session_readings"}
          /\ lastDb.session = None)
        => /\ lastDb.raised = "No active session."
           /\ device_table = lastDb.rows
           /\ sessions_table = lastDb.sessions
           /\ db_session = lastDb.session
    /\ (lastDb.op = "insert_readings" /\ lastDb.session # None)
        => /\ IsPrefix(lastDb.rows, device_table)
           /\ \A i \in (Len(lastDb.rows) + 1)..Len(device_table) :
                  device_table[i].session_id = lastDb.session
    /\ \A i \in 1..Len(device_table) : device_table[i].session_id # None

C22_Witness ==
    /\ lastDb.op = "insert_readings"
    /\ lastDb.session = None
    /\ lastDb.raised = "No active session."
    /\ Len(device_table) >= 2
    /\ device_table[1].session_id # device_table[2].session_id

\* the sessions of the table that have no end time
OpenSessions == {i \in 1..Len(sessions_table) : sessions_table[i].end = None}

\* C23: at most one session has no end time and it is the active one;
\* start_session over an active session has stamped that session's end, not
\* later than the start of the new one, and made the new session the active
\* one; end_session with no active session changes nothing.
C23_OneOpenSession ==
    /\ OpenSessions = (IF db_session = None THEN {} ELSE {db_session})
    /\ (lastDb.op = "start_session" /\ lastDb.session # None)
        => /\ sessions_table[lastDb.session].end # None
           /\ db_session = Len(lastDb.sessions) + 1
           /\ sessions_table[lastDb.session].end
                <= sessions_table[db_session].start
    /\ (lastDb.op = "end_session" /\ lastDb.session = None)
        => /\ sessions_table = lastDb.sessions
           /\ db_session = None
           /\ device_table = lastDb.rows

C23_Witness ==
    /\ lastDb.op = "start_session"
    /\ lastDb.session # None
    /\ Len(sessions_table) >= 3
    /\ sessions_table[lastDb.session].end = sessions_table[db_session].start

\* the k-th reading put on the ingress queue has been dequeued and put on
\* every queue registered when it was dequeued
Dispatched(k) ==
    /\ Len(deqOrder) >= k
    /\ deqOrder[k] = k
    /\ CycleDone(k)
    /\ \A q \in snapAt[k] : Puts(k, q) = 1

\* C24: while the dispatcher is not cancelled, every reading put on the
\* ingress queue is eventually dequeued and put on every queue registered at
\* that moment, whatever the subscribers leave unconsumed.
C24_DispatcherNeverBlocks ==
    \A k \in 1..MaxReadings :
      (Len(heap) >= k) ~> (Dispatched(k) \/ dpc = "cancelled")

C24_Witness ==
    /\ Dispatched(MaxReadings)
    /\ Len(queues["db"]) = MaxReadings
    /\ Len(queues["bc"]) = MaxReadings
    /\ dpc = "get"

\* the readings of one poll cycle appear in seq in the order of temps
PollOrdered(seq) ==
    \A i, j \in 1..Len(seq) : \A x, y \in origin :
      (i < j /\ x.b = seq[i] /\ y.b = seq[j] /\ x.poll = y.poll)
      => x.idx < y.idx

\* the readings a subscriber has been handed and those waiting for it
Reached(q) ==
    LET mine == SelectSeq(putlog, LAMBDA e : e.q = q)
    IN [i \in 1..Len(mine) |-> mine[i].b]

\* C25: the readings of one poll cycle of the one-wire reporter are on the
\* ingress queue, are dequeued by the dispatcher, are put on every
\* subscriber queue and wait there in the order of the poll's result,
\* whatever the other producer puts in between.
C25_PollOrderKept ==
    /\ PollOrdered(readings)
    /\ PollOrdered(deqOrder)
    /\ \A q \in {"db", "bc"} :
         /\ PollOrdered(Reached(q))
         /\ PollOrdered(queues[q])
         /\ IsSuffix(queues[q], Reached(q))

C25_Witness ==
    \E x, y \in origin :
      /\ x.poll = y.poll /\ x.idx = 1 /\ y.idx = 2
      /\ y.b = x.b + 2
      /\ \A q \in {"db", "bc"} :
           \E i, j \in 1..Len(Reached(q)) :
             i < j /\ Reached(q)[i] = x.b /\ Reached(q)[j] = y.b

\* C26: no result of a task that ended in the bridge's race is left
\* unjoined: every message taken off out_q is written as a frame, acted on
\* as the sentinel or still held for the bridge, and every chunk read from
\* the socket is fed to the decoder or still held for it.
C26_RaceLosesNothing ==
    /\ dropped = << >>
    /\ (apc = "wait" /\ wstate = "OPEN" /\ Count(peerSent, "ping") = 0)
        => Payloads(sockOut) \o Held = DataItems(taken)

\* C27: the registered queues are exactly the queues that have a label.
C27_LabelsMatchRegistry ==
    subscribers = DOMAIN subscriber_names

C27_Witness ==
    /\ lastCall.op = "unsubscribe"
    /\ lastCall.q \in lastCall.subs
    /\ Cardinality(lastCall.subs) = 3
    /\ Cardinality(subscribers) = 2

\* the sentinels put on in_q so far
InboundSentinels == {i \in 1..Len(inLog) : inLog[i] = None}

\* a step of a bridge that is Closed: nothing is read from the socket,
\* nothing is taken off out_q, nothing is written and nothing is put on
\* in_q (the handler may still take items off in_q)
ClosedBridgeStep ==
    apc = "done" =>
      /\ apc' = "done"
      /\ wstask' = wstask
      /\ Len(wire') >= Len(wire)
      /\ outqtask' = outqtask
      /\ taken' = taken
      /\ sockOut' = sockOut
      /\ inLog' = inLog
      /\ Len(in_q') <= Len(in_q)

\* C28: a Closed bridge reads nothing more from the socket, writes no
\* further frame and puts nothing more on in_q; in_q gets at most one
\* sentinel, as its last item.
C28_ClosedBridgeIsSilent ==
    /\ [][ClosedBridgeStep]_vars
    /\ [](Cardinality(InboundSentinels) <= 1)
    /\ [](InboundSentinels # {} => inLog[Len(inLog)] = None)

C28_Witness ==
    /\ apc = "done"
    /\ Len(inLog) >= 2
    /\ InboundSentinels = {Len(inLog)}
    /\ out_q # << >>
    /\ rpc = "done"

\* the handler has taken a batch off its subscriber queue in this step
BatchDequeued == Len(queues'["ws"]) = Len(queues["ws"]) - 1

\* a step in which the handler is involved: it takes items off in_q and
\* unregisters only together with a batch, one inbound item per batch, and
\* it unregisters exactly when that item is the sentinel
HandlerStep ==
    /\ Len(in_q') < Len(in_q) => (BatchDequeued /\ in_q' = Tail(in_q))
    /\ BatchDequeued =>
         /\ in_q # << >> => in_q' = Tail(in_q)
         /\ ("ws" \notin subscribers')
              <=> (in_q # << >> /\ Head(in_q) = None)
    /\ ("ws" \in subscribers /\ "ws" \notin subscribers') => BatchDequeued

\* C29: websocket_client takes at most one item off in_q for every batch
\* it dequeues and exactly one while in_q is not empty, so K unread
\* messages ahead of the sentinel cost K+1 further batches; it unregisters
\* its queue only in a step in which it has dequeued a further batch, the
\* one that makes it find the sentinel.
C29_OneInboundPerBatch ==
    [][HandlerStep]_vars

C29_Witness ==
    /\ spc["ws"] = "done"
    /\ "ws" \notin subscribers
    /\ inLog = <<1, None>>
    /\ in_q = << >>
    /\ Len(Dequeued("ws")) = 2

\* the application handler has returned into run_ws
HandlerReturned == rpc \in {"join", "done", "failed"}

\* C30: once the handler has returned, exactly one sentinel has been put on
\* out_q, and, unless the connection breaks, the bridge goes on to end and
\* the runner to return from its join.
C30_RunnerReturns ==
    /\ [](HandlerReturned
            => Cardinality({i \in 1..Len(outLog) : outLog[i] = None}) = 1)
    /\ HandlerReturned ~> ((apc = "done" /\ rpc = "done") \/ ppc = "reset")

====
